---- MODULE Spec2Model ----
(***************************************************************************)
(* State-machine model of the SDV-ext-api content aggregator.              *)
(*                                                                         *)
(* The repository holds two runnable Flask applications with the same      *)
(* routes: src/app.py (the deployed service) and src/main.py (the earlier  *)
(* variant without page caps, status checks and try/except wrappers).      *)
(* The variable impl says which of the two serves the request.  Every      *)
(* network call is one step; the upstream's answer to it is chosen         *)
(* nondeterministically from a bounded set of responses.                   *)
(*                                                                         *)
(* Spec follows one request.  SpecRerun follows an extraction request and  *)
(* then the same request again against unchanged upstream data.  SpecConc  *)
(* follows two /pw/extract requests served concurrently, with the steps on *)
(* the shared output directory interleaved.                                *)
(***************************************************************************)
EXTENDS Integers, Sequences, FiniteSets, TLC

VARIABLES
    impl,          \* "app" (src/app.py) or "main" (src/main.py)
    op,            \* the route being served, "idle" before a request arrives
    pc,            \* position inside the handler
    page,          \* loop variable `page` of the Platform B paginations
    result,        \* pw_get_batches: the list `result`
    ret,           \* return value of the core function called by the handler
    response,      \* what the endpoint sends back to the caller
    content_type,  \* query parameter content_type of /pw/extract
    subjects,      \* pw_extract_content: the list `subjects`
    si,            \* index of the subject being traversed (1-based)
    full_content,  \* the text buffer, as a sequence of lines
    files,         \* output directory: file name -> content, for written files
    credentials,   \* query parameter credentials of the KGS routes
    token,         \* KGS token after the login step
    lessons,       \* kgs_extract_content: the list `lessons`
    li,            \* index of the lesson being processed (1-based)
    calls,         \* history: every upstream call issued, with its response
    prior,         \* history: the request served before this one, if any
    conc           \* two /pw/extract requests served by concurrent workers

vars == <<impl, op, pc, page, result, ret, response, content_type, subjects,
          si, full_content, files, credentials, token, lessons, li, calls,
          prior, conc>>

----------------------------------------------------------------------------
(* Bounds of the model (not program constants).                            *)

\* A request of src/main.py, whose loops have no page cap, is followed for at
\* most Horizon page requests of one loop.
Horizon == 32

\* Longest subject list and lesson list the upstream returns.
MaxSubjects == 2
MaxLessons == 2

\* Longest credentials string.
MaxCredLen == 2

\* A subject's content listing ends (empty or failed page) within its first
\* MaxEndPage pages, or never ends.
MaxEndPage == 2

\* A request is followed into its repetition when it issued at most
\* MaxReplayCalls upstream calls.
MaxReplayCalls == 5

----------------------------------------------------------------------------
(* Program constants.                                                      *)

BatchPageCap == 10      \* src/app.py:164
ContentPageCap == 30    \* src/app.py:258

Impls == {"app", "main"}

NoRet == [kind |-> "pending"]
NoResponse == [status |-> 0]

----------------------------------------------------------------------------
(* Python helpers.                                                         *)

\* dict.get(key, default)
Get(d, k, default) == IF k \in DOMAIN d THEN d[k] ELSE default

\* A JSON value that is not an object: calling .get on it or subscripting it
\* with a string raises.
NonDict == [nondict |-> TRUE]
IsDict(v) == "nondict" \notin DOMAIN v

----------------------------------------------------------------------------
(* Platform B batch listing: upstream responses.                           *)

\* The page numbers at which a listing may hold any page of the page sets
\* below; the other pages of an upstream that keeps answering hold the
\* filler page.
VariedPages == {1}

BPaid == [_id |-> "b1", name |-> "Batch one", feeId |-> [total |-> "999"]]
BNoFee == [_id |-> "b2", name |-> "Batch two"]
BNoTotal == [_id |-> "b3", name |-> "Batch three", feeId |-> [discount |-> "0"]]
BNoName == [_id |-> "b4"]

FillerBatchPage == <<BPaid>>
BatchPages == {<<BPaid>>, <<BNoFee, BPaid>>, <<BNoTotal>>, <<BPaid, BNoName>>}

\* Responses of GET /v3/batches/my-batches?page=p
BatchResponses(p) ==
    {[status |-> 401], [status |-> 500], [status |-> 403],
     [status |-> 200, json |-> FALSE],
     [status |-> 200, json |-> TRUE, body |-> [message |-> "ok"]],
     [status |-> 200, json |-> TRUE, body |-> [data |-> <<>>]],
     [status |-> 0, exception |-> "ConnectionError"]}
    \cup {[status |-> 200, json |-> TRUE, body |-> [data |-> d]] :
            d \in (IF p \in VariedPages THEN BatchPages ELSE {FillerBatchPage})}

\* result.append({...}) of one batch; raises KeyError on a missing _id or name
BatchRaises(batch) == ~ ("_id" \in DOMAIN batch /\ "name" \in DOMAIN batch)
BatchEntry(batch) ==
    [batch_id |-> batch._id,
     batch_name |-> batch.name,
     price |-> Get(Get(batch, "feeId", [none |-> TRUE]), "total", "Free")]

RECURSIVE BatchLoop(_, _)
\* the loop `for batch in data` appending to acc; [ok |-> FALSE] once it raises
BatchLoop(acc, data) ==
    IF data = <<>> THEN [ok |-> TRUE, out |-> acc]
    ELSE IF BatchRaises(Head(data)) THEN [ok |-> FALSE, out |-> acc]
    ELSE BatchLoop(Append(acc, BatchEntry(Head(data))), Tail(data))

----------------------------------------------------------------------------
(* Platform B batch listing: pw_get_batches and /pw/get_batches.           *)

\* one entry of the call history: the endpoint called, its argument (subject
\* index, lesson id, login form or bearer token), the page and the response
Call(api, arg, p, r) == [api |-> api, arg |-> arg, page |-> p, resp |-> r]

\* variant: a 401 page is handled like any other failed page
BatchPageOutcomeNo401(acc, r) ==
    IF "exception" \in DOMAIN r THEN [next |-> "return", ret |-> [kind |-> "None"]]
    ELSE IF r.status # 200 THEN [next |-> "return", ret |-> [kind |-> "list", val |-> acc]]
    ELSE IF ~ r.json THEN [next |-> "return", ret |-> [kind |-> "TOKEN_ERROR"]]
    ELSE LET data == Get(r.body, "data", <<>>) IN
         IF data = <<>> THEN [next |-> "return", ret |-> [kind |-> "list", val |-> acc]]
         ELSE LET b == BatchLoop(acc, data) IN
              IF b.ok THEN [next |-> "loop", acc |-> b.out]
              ELSE [next |-> "return", ret |-> [kind |-> "None"]]

\* variant: a failed page makes the lister give up and return None
BatchPageOutcomeFailHard(acc, r) ==
    IF "exception" \in DOMAIN r THEN [next |-> "return", ret |-> [kind |-> "None"]]
    ELSE IF r.status = 401 THEN [next |-> "return", ret |-> [kind |-> "TOKEN_ERROR"]]
    ELSE IF r.status # 200 THEN [next |-> "return", ret |-> [kind |-> "None"]]
    ELSE IF ~ r.json THEN [next |-> "return", ret |-> [kind |-> "TOKEN_ERROR"]]
    ELSE LET data == Get(r.body, "data", <<>>) IN
         IF data = <<>> THEN [next |-> "return", ret |-> [kind |-> "list", val |-> acc]]
         ELSE LET b == BatchLoop(acc, data) IN
              IF b.ok THEN [next |-> "loop", acc |-> b.out]
              ELSE [next |-> "return", ret |-> [kind |-> "None"]]

\* Outcome of one executed iteration of the page loop of pw_get_batches,
\* given the response r to its request: what the function does next.
BatchPageOutcome(acc, r) ==
    IF "exception" \in DOMAIN r THEN [next |-> "return", ret |-> [kind |-> "None"]]
    ELSE IF r.status = 401 THEN [next |-> "return", ret |-> [kind |-> "TOKEN_ERROR"]]
    ELSE IF r.status # 200 THEN [next |-> "return", ret |-> [kind |-> "list", val |-> acc]]
    ELSE IF ~ r.json THEN [next |-> "return", ret |-> [kind |-> "TOKEN_ERROR"]]
    ELSE LET data == Get(r.body, "data", <<>>) IN
         IF data = <<>> THEN [next |-> "return", ret |-> [kind |-> "list", val |-> acc]]
         ELSE LET b == BatchLoop(acc, data) IN
              IF b.ok THEN [next |-> "loop", acc |-> b.out]
              ELSE [next |-> "return", ret |-> [kind |-> "None"]]

\* the loop guard: app.py leaves the loop once page > 10; main.py has no guard
BatchLoopContinues(which, p) == which = "main" \/ p <= BatchPageCap

PwGetBatchesStart ==
    /\ op = "idle"
    /\ op' = "pw_get_batches"
    /\ \E hasAuth \in BOOLEAN :
         IF hasAuth
         THEN /\ pc' = "list_loop"
              /\ page' = 1
              /\ result' = <<>>
              /\ UNCHANGED response
         ELSE /\ pc' = "done"
              /\ response' = [status |-> 400, error |-> "Authentication code is required"]
              /\ UNCHANGED <<page, result>>
    /\ UNCHANGED <<prior, conc, impl, ret, content_type, subjects, si, full_content, files,
                   credentials, token, lessons, li, calls>>

PwBatchesRequest ==
    /\ op = "pw_get_batches" /\ pc = "list_loop"
    /\ BatchLoopContinues(impl, page)
    /\ page <= Horizon
    /\ \E r \in BatchResponses(page) :
         LET o == BatchPageOutcome(result, r) IN
         /\ calls' = Append(calls, Call("my-batches", 0, page, r))
         /\ IF o.next = "loop"
            THEN /\ result' = o.acc
                 /\ page' = page + 1
                 /\ UNCHANGED <<ret, pc>>
            ELSE /\ ret' = o.ret
                 /\ pc' = "list_done"
                 /\ UNCHANGED <<result, page>>
    /\ UNCHANGED <<prior, conc, impl, op, response, content_type, subjects, si, full_content,
                   files, credentials, token, lessons, li>>

PwBatchesCapReached ==
    /\ op = "pw_get_batches" /\ pc = "list_loop"
    /\ ~ BatchLoopContinues(impl, page)
    /\ ret' = [kind |-> "list", val |-> result]
    /\ pc' = "list_done"
    /\ UNCHANGED <<prior, conc, impl, op, page, result, response, content_type, subjects, si,
                   full_content, files, credentials, token, lessons, li, calls>>

\* pw_get_batches_endpoint after the call of pw_get_batches
BatchesReply(r) ==
    IF r.kind = "TOKEN_ERROR" THEN [status |-> 401, error |-> "Invalid or expired token"]
    ELSE IF r.kind = "None" \/ r.val = <<>>
         THEN [status |-> 404, error |-> "No batches found or failed to fetch"]
    ELSE [status |-> 200, batches |-> r.val]

PwBatchesReply ==
    /\ op = "pw_get_batches" /\ pc = "list_done"
    /\ response' = BatchesReply(ret)
    /\ pc' = "done"
    /\ UNCHANGED <<prior, conc, impl, op, page, result, ret, content_type, subjects, si,
                   full_content, files, credentials, token, lessons, li, calls>>

----------------------------------------------------------------------------
(* Text helpers: a str is a sequence of one-character strings.             *)

IsPrefix(old, s) == Len(old) <= Len(s) /\ SubSeq(s, 1, Len(old)) = old

RECURSIVE Replace(_, _, _)
\* str.replace(old, new) for a non-empty old: leftmost occurrences, no overlap
Replace(s, old, new) ==
    IF Len(s) < Len(old) THEN s
    ELSE IF IsPrefix(old, s)
         THEN new \o Replace(SubSeq(s, Len(old) + 1, Len(s)), old, new)
    ELSE <<Head(s)>> \o Replace(Tail(s), old, new)

RECURSIVE LStrip(_)
LStrip(s) == IF s # <<>> /\ Head(s) = " " THEN LStrip(Tail(s)) ELSE s

RECURSIVE RStrip(_)
RStrip(s) ==
    IF s # <<>> /\ s[Len(s)] = " " THEN RStrip(SubSeq(s, 1, Len(s) - 1)) ELSE s

\* str.strip()
Strip(s) == RStrip(LStrip(s))

OldHost == <<"d","1","d","3","4","p","8","v","z","6","3","o","i","q">>
NewHost == <<"d","2","6","g","5","b","n","k","l","k","w","s","h","4">>
Mpd == <<"m","p","d">>
M3u8 == <<"m","3","u","8">>

Occurs(old, s) == {i \in 1..Len(s) : IsPrefix(old, SubSeq(s, i, Len(s)))}
\* str.replace(old, new, 1): the leftmost occurrence only
ReplaceOnce(s, old, new) ==
    IF Occurs(old, s) = {} THEN s
    ELSE LET i == CHOOSE j \in Occurs(old, s) : \A k \in Occurs(old, s) : j <= k
         IN SubSeq(s, 1, i - 1) \o new \o SubSeq(s, i + Len(old), Len(s))

\* variant: each substitution replaces the first occurrence only
RewriteUrlOnce(u) == Strip(ReplaceOnce(ReplaceOnce(u, OldHost, NewHost), Mpd, M3u8))

\* the DppSolution rewrite of a url
RewriteUrl(u) == Strip(Replace(Replace(u, OldHost, NewHost), Mpd, M3u8))

----------------------------------------------------------------------------
(* Platform B extraction: upstream data.                                   *)

ContentTypes == {"exercises-notes-videos", "notes", "DppNotes", "DppSolution"}
\* any other non-empty content_type passes the parameter check of the route
RequestedTypes == ContentTypes \cup {"lectures"}

SubjectNames == <<"Physics", "Maths", "Chemistry", "Biology">>
\* the i-th subject of the batch, and an entry that lacks its _id
Subj(i) == [_id |-> i, subject |-> SubjectNames[i]]
SNoId == [subject |-> "General"]

\* subject lists: the batch's subjects in order, any of them malformed
SubjectLists ==
    UNION {{[i \in 1..n |-> IF i \in bad THEN SNoId ELSE Subj(i)] :
              bad \in SUBSET (1..n)} : n \in 0..MaxSubjects}

IV1 == [topic |-> "Lecture 1", url |-> <<"u","1">>]
IVsp == [topic |-> "Lecture 2", url |-> <<" ","u","2"," ">>]
INoTopic == [url |-> <<"u","3">>]
INoUrl == [topic |-> "Lecture 4"]
IMpd == [topic |-> "Q1", url |-> OldHost \o <<"/","c","o">> \o Mpd \o <<".">> \o Mpd]

Att1 == [baseUrl |-> <<"b","/">>, key |-> <<"k","1">>]
Att2 == [baseUrl |-> <<"c","/">>, key |-> <<"k",".">> \o Mpd]
AttNoKey == [baseUrl |-> <<"b","/">>]
HwA == [topic |-> "HW A", attachmentIds |-> <<Att1, Att2>>]
HwB == [topic |-> "HW B", attachmentIds |-> <<AttNoKey>>]
HwNoAtt == [topic |-> "HW C", attachmentIds |-> <<>>]
HwNoTopic == [attachmentIds |-> <<Att2>>]
IN1 == [topic |-> "Note 1", homeworkIds |-> <<HwA, HwB>>]
IN2 == [topic |-> "Note 2", homeworkIds |-> <<HwNoAtt, HwA>>]
IN3 == [topic |-> "Note 3", homeworkIds |-> <<HwNoTopic>>]
IN0 == [topic |-> "Note 0", homeworkIds |-> <<>>]
INnone == [topic |-> "Note 4"]

VideoPages == {<<IV1, IVsp>>, <<IMpd, INoTopic, INoUrl>>, <<IV1, NonDict, IV1>>}
NotePages == {<<IN1, IN0>>, <<IN2, IN3, INnone>>, <<IN1, NonDict, IN1>>}

IsNoteType(ct) == ct \in {"notes", "DppNotes"}
ContentPages(ct) ==
    IF IsNoteType(ct) THEN NotePages
    ELSE IF ct \in ContentTypes THEN VideoPages
    ELSE {<<IV1, IN1>>}
FillerPage(ct) == IF IsNoteType(ct) THEN <<IN1>> ELSE <<IV1>>

\* Responses of GET /v3/batches/{batch_id}/details
SubjectResponses ==
    {[status |-> 401], [status |-> 500],
     [status |-> 200, json |-> FALSE],
     [status |-> 200, json |-> TRUE, body |-> [data |-> [name |-> "Batch one"]]],
     [status |-> 0, exception |-> "ConnectionError"]}
    \cup {[status |-> 200, json |-> TRUE, body |-> [data |-> [subjects |-> l]]] :
            l \in SubjectLists}

\* Responses of GET /v2/batches/{batch_id}/subject/{subject_id}/contents?page=p
EndResponses ==
    {[status |-> 401], [status |-> 500],
     [status |-> 200, json |-> FALSE],
     [status |-> 200, json |-> TRUE, body |-> [data |-> <<>>]],
     [status |-> 0, exception |-> "ConnectionError"]}
ContentResponses(ct, p) ==
    (IF p <= MaxEndPage THEN EndResponses ELSE {})
    \cup {[status |-> 200, json |-> TRUE, body |-> [data |-> d]] :
            d \in (IF p \in VariedPages THEN ContentPages(ct) ELSE {FillerPage(ct)})}

----------------------------------------------------------------------------
(* Platform B extraction: record normalisation.                            *)

Header(name) == [header |-> name]
Line(label, url) == [label |-> label, url |-> url]

\* item[k] of main.py raises KeyError on a missing key; item.get(k, default)
\* of app.py does not
MissingKey(which, d, keys) == which = "main" /\ \E k \in keys : k \notin DOMAIN d

Raised == [ok |-> FALSE, lines |-> <<>>]
Emit(ls) == [ok |-> TRUE, lines |-> ls]

\* the branch of one homework entry (notes and DppNotes share it)
HomeworkLines(which, homework) ==
    IF ~ IsDict(homework) THEN Raised
    ELSE LET atts == Get(homework, "attachmentIds", <<>>) IN
         IF atts = <<>> THEN Emit(<<>>)
         ELSE LET attachment == atts[1] IN
              IF ~ IsDict(attachment) THEN Raised
              ELSE IF MissingKey(which, homework, {"topic"})
                      \/ MissingKey(which, attachment, {"baseUrl", "key"}) THEN Raised
              ELSE Emit(<<Line(Get(homework, "topic", "Untitled"),
                               Get(attachment, "baseUrl", <<>>)
                                   \o Get(attachment, "key", <<>>))>>)

RECURSIVE HomeworkLoop(_, _, _)
\* `for homework in item['homeworkIds']` of the DppNotes branch
HomeworkLoop(which, acc, hws) ==
    IF hws = <<>> THEN Emit(acc)
    ELSE LET h == HomeworkLines(which, Head(hws)) IN
         IF ~ h.ok THEN Raised
         ELSE HomeworkLoop(which, acc \o h.lines, Tail(hws))

\* variant: the notes branch walks every homework entry, as DppNotes does
NormalizeNotesAll(which, ct, item) ==
    IF ct \notin ContentTypes THEN Emit(<<>>)
    ELSE IF ~ IsDict(item) THEN Raised
    ELSE IF ct \in {"exercises-notes-videos", "DppSolution"}
         THEN IF MissingKey(which, item, {"topic", "url"}) THEN Raised
              ELSE Emit(<<Line(Get(item, "topic", "Untitled"),
                               IF ct = "DppSolution" THEN RewriteUrl(Get(item, "url", <<>>))
                               ELSE Strip(Get(item, "url", <<>>)))>>)
    ELSE HomeworkLoop(which, <<>>, Get(item, "homeworkIds", <<>>))

\* the if/elif chain on content_type for one item of a page
Normalize(which, ct, item) ==
    IF ct \notin ContentTypes THEN Emit(<<>>)
    ELSE IF ~ IsDict(item) THEN Raised
    ELSE IF ct = "exercises-notes-videos"
         THEN IF MissingKey(which, item, {"topic", "url"}) THEN Raised
              ELSE Emit(<<Line(Get(item, "topic", "Untitled"),
                               Strip(Get(item, "url", <<>>)))>>)
    ELSE IF ct = "notes"
         THEN LET hws == Get(item, "homeworkIds", <<>>) IN
              IF hws = <<>> THEN Emit(<<>>) ELSE HomeworkLines(which, hws[1])
    ELSE IF ct = "DppNotes"
         THEN HomeworkLoop(which, <<>>, Get(item, "homeworkIds", <<>>))
    ELSE IF MissingKey(which, item, {"topic", "url"}) THEN Raised
         ELSE Emit(<<Line(Get(item, "topic", "Untitled"),
                          RewriteUrl(Get(item, "url", <<>>)))>>)

InBuffer(buf, l) == \E i \in DOMAIN buf : buf[i] = l
RECURSIVE AppendNew(_, _)
AppendNew(buf, ls) ==
    IF ls = <<>> THEN buf
    ELSE AppendNew(IF InBuffer(buf, Head(ls)) THEN buf ELSE Append(buf, Head(ls)),
                   Tail(ls))

RECURSIVE ItemLoopDedup(_, _, _, _)
\* variant: a line already in the buffer is not added again
ItemLoopDedup(which, ct, buf, data) ==
    IF data = <<>> THEN [ok |-> TRUE, out |-> buf]
    ELSE LET n == Normalize(which, ct, Head(data)) IN
         IF ~ n.ok THEN [ok |-> FALSE, out |-> buf]
         ELSE ItemLoopDedup(which, ct, AppendNew(buf, n.lines), Tail(data))

RECURSIVE ItemLoop(_, _, _, _)
\* `for item in subject_data` appending to the buffer buf
ItemLoop(which, ct, buf, data) ==
    IF data = <<>> THEN [ok |-> TRUE, out |-> buf]
    ELSE LET n == Normalize(which, ct, Head(data)) IN
         IF ~ n.ok THEN [ok |-> FALSE, out |-> buf]
         ELSE ItemLoop(which, ct, buf \o n.lines, Tail(data))

----------------------------------------------------------------------------
(* Platform B extraction: pw_get_subjects, pw_get_batch_contents,          *)
(* pw_extract_content and /pw/extract.                                     *)

BatchId == "42"
PwFileName(batch_id, ct) == <<"PW", batch_id, ct>>
KgsFileName(batch_id) == <<"KGS", batch_id>>

\* variant: open(path, "a"), the buffer is appended to an existing file
WriteFileAppend(fs, name, buf) ==
    [n \in DOMAIN fs \cup {name} |->
        IF n # name THEN fs[n] ELSE IF name \in DOMAIN fs THEN fs[name] \o buf ELSE buf]

\* open(path, "w").write(buf): the file is created or truncated
WriteFile(fs, name, buf) ==
    [n \in DOMAIN fs \cup {name} |-> IF n = name THEN buf ELSE fs[n]]

\* pw_get_subjects: app.py turns every failure into []; main.py lets a
\* failed request or an unparsable body raise
GetSubjects(which, r) ==
    IF "exception" \in DOMAIN r \/ (r.status = 200 /\ ~ r.json)
    THEN [raised |-> which = "main", data |-> <<>>]
    ELSE IF r.status = 200
         THEN [raised |-> FALSE,
               data |-> Get(Get(r.body, "data", [none |-> TRUE]), "subjects", <<>>)]
    ELSE [raised |-> FALSE, data |-> <<>>]

\* pw_get_batch_contents
GetBatchContents(which, r) ==
    IF "exception" \in DOMAIN r \/ (r.status = 200 /\ ~ r.json)
    THEN [raised |-> which = "main", data |-> <<>>]
    ELSE IF r.status = 200
         THEN [raised |-> FALSE, data |-> Get(r.body, "data", <<>>)]
    ELSE [raised |-> FALSE, data |-> <<>>]

\* an exception inside pw_extract_content: app.py catches it and returns
\* None, main.py lets it reach the web framework
ExtractRaises(which) ==
    IF which = "app" THEN [kind |-> "None"] ELSE [kind |-> "raise"]

Abort(which, i, p, buf) ==
    [pc |-> "extract_done", si |-> i, page |-> p, buf |-> buf,
     ret |-> ExtractRaises(which)]

\* variant: no header line is written at the head of the subject loop
EnterSubjectNoHeader(which, subs, i, p, buf) ==
    IF i > Len(subs)
    THEN [pc |-> "write", si |-> i, page |-> p, buf |-> buf, ret |-> NoRet]
    ELSE IF ~ ({"_id", "subject"} \subseteq DOMAIN subs[i]) THEN Abort(which, i, p, buf)
    ELSE [pc |-> "content_loop", si |-> i, page |-> 1, buf |-> buf, ret |-> NoRet]

\* the head of the subject loop for subject i: header line and page = 1, or
\* the end of the loop
EnterSubject(which, subs, i, p, buf) ==
    IF i > Len(subs)
    THEN [pc |-> "write", si |-> i, page |-> p, buf |-> buf, ret |-> NoRet]
    ELSE IF ~ ({"_id", "subject"} \subseteq DOMAIN subs[i]) THEN Abort(which, i, p, buf)
    ELSE [pc |-> "content_loop", si |-> i, page |-> 1,
          buf |-> Append(buf, Header(subs[i].subject)), ret |-> NoRet]

\* the loop guard: app.py leaves the loop once page > 30; main.py has no guard
ContentLoopContinues(which, p) == which = "main" \/ p <= ContentPageCap

\* one executed iteration of `while True` given the response r
ContentPageOutcome(which, ct, subs, i, p, buf, r) ==
    LET g == GetBatchContents(which, r) IN
    IF g.raised THEN Abort(which, i, p, buf)
    ELSE IF g.data = <<>> THEN EnterSubject(which, subs, i + 1, p, buf)
    ELSE LET l == ItemLoop(which, ct, buf, g.data) IN
         IF ~ l.ok THEN Abort(which, i, p, l.out)
         ELSE [pc |-> "content_loop", si |-> i, page |-> p + 1, buf |-> l.out,
               ret |-> NoRet]

PwExtractStart ==
    /\ op = "idle"
    /\ op' = "pw_extract"
    /\ \E ct \in RequestedTypes \cup {"none"} :
         IF ct # "none"
         THEN /\ content_type' = ct
              /\ pc' = "subjects"
              /\ UNCHANGED response
         ELSE /\ pc' = "done"
              /\ response' = [status |-> 400,
                              error |-> "auth_code, batch_id, and content_type are required"]
              /\ UNCHANGED content_type
    /\ UNCHANGED <<prior, conc, impl, page, result, ret, subjects, si, full_content, files,
                   credentials, token, lessons, li, calls>>

PwSubjectsRequest ==
    /\ op = "pw_extract" /\ pc = "subjects"
    /\ \E r \in SubjectResponses :
         LET g == GetSubjects(impl, r)
             e == IF g.raised THEN Abort(impl, 0, 0, <<>>)
                  ELSE IF g.data = <<>>
                       THEN [pc |-> "extract_done", si |-> 0, page |-> 0, buf |-> <<>>,
                             ret |-> [kind |-> "None"]]
                  ELSE EnterSubject(impl, g.data, 1, 0, <<>>)
         IN /\ calls' = Append(calls, Call("details", 0, 0, r))
            /\ subjects' = g.data
            /\ pc' = e.pc /\ si' = e.si /\ page' = e.page
            /\ full_content' = e.buf /\ ret' = e.ret
    /\ UNCHANGED <<prior, conc, impl, op, result, response, content_type, files, credentials,
                   token, lessons, li>>

PwContentRequest ==
    /\ op = "pw_extract" /\ pc = "content_loop"
    /\ ContentLoopContinues(impl, page)
    /\ page <= Horizon
    /\ \E r \in ContentResponses(content_type, page) :
         LET e == ContentPageOutcome(impl, content_type, subjects, si, page,
                                     full_content, r)
         IN /\ calls' = Append(calls, Call("contents", si, page, r))
            /\ pc' = e.pc /\ si' = e.si /\ page' = e.page
            /\ full_content' = e.buf /\ ret' = e.ret
    /\ UNCHANGED <<prior, conc, impl, op, result, response, content_type, subjects, files,
                   credentials, token, lessons, li>>

PwContentCapReached ==
    /\ op = "pw_extract" /\ pc = "content_loop"
    /\ ~ ContentLoopContinues(impl, page)
    /\ LET e == EnterSubject(impl, subjects, si + 1, page, full_content)
       IN /\ pc' = e.pc /\ si' = e.si /\ page' = e.page
          /\ full_content' = e.buf /\ ret' = e.ret
    /\ UNCHANGED <<prior, conc, impl, op, result, response, content_type, subjects, files,
                   credentials, token, lessons, li, calls>>

\* `if full_content:` and the write of the output file
PwWriteFile ==
    /\ op = "pw_extract" /\ pc = "write"
    /\ IF full_content # <<>>
       THEN /\ files' = WriteFile(files, PwFileName(BatchId, content_type), full_content)
            /\ ret' = [kind |-> "path", name |-> PwFileName(BatchId, content_type)]
       ELSE /\ ret' = [kind |-> "None"]
            /\ UNCHANGED files
    /\ pc' = "extract_done"
    /\ UNCHANGED <<prior, conc, impl, op, page, result, response, content_type, subjects, si,
                   full_content, credentials, token, lessons, li, calls>>

\* the endpoint after the call of pw_extract_content / kgs_extract_content;
\* send_file reads the file when the reply is sent
ExtractReply(which, fs, r) ==
    IF r.kind = "raise" THEN [status |-> 500, error |-> "Internal Server Error"]
    ELSE IF r.kind = "None"
         THEN [status |-> 404,
               error |-> IF which = "app" THEN "No content found or extraction failed"
                         ELSE "No content found"]
    ELSE [status |-> 200, file |-> r.name, content |-> fs[r.name]]

PwExtractReply ==
    /\ op = "pw_extract" /\ pc = "extract_done"
    /\ response' = ExtractReply(impl, files, ret)
    /\ pc' = "done"
    /\ UNCHANGED <<prior, conc, impl, op, page, result, ret, content_type, subjects, si,
                   full_content, files, credentials, token, lessons, li, calls>>

----------------------------------------------------------------------------
(* Platform A (KGS): upstream data.                                        *)

Untitled == <<"U","n","t","i","t","l","e","d">>

CredChars == {"a", "*"}
Credentials == UNION {[1..n -> CredChars] : n \in 0..MaxCredLen}

HasStar(c) == \E i \in DOMAIN c : c[i] = "*"
FirstStar(c) == CHOOSE i \in DOMAIN c : c[i] = "*" /\ \A j \in 1..(i - 1) : c[j] # "*"
LastStar(c) == CHOOSE i \in DOMAIN c : c[i] = "*" /\ \A j \in (i + 1)..Len(c) : c[j] # "*"
\* variant: the split is made at the last '*'
SplitAtLastStar(c) ==
    [user_id |-> SubSeq(c, 1, LastStar(c) - 1),
     password |-> SubSeq(c, LastStar(c) + 1, Len(c))]

\* credentials.split('*', 1) of a string that contains '*'
SplitCredentials(c) ==
    [user_id |-> SubSeq(c, 1, FirstStar(c) - 1),
     password |-> SubSeq(c, FirstStar(c) + 1, Len(c))]

IssuedToken == <<"t","k">>

\* Responses of POST /api/login-with-password
LoginResponses ==
    {[status |-> 401, json |-> TRUE, body |-> [message |-> "bad"]],
     [status |-> 500, json |-> FALSE],
     [status |-> 200, json |-> FALSE],
     [status |-> 200, json |-> TRUE, body |-> [token |-> IssuedToken]],
     [status |-> 200, json |-> TRUE, body |-> [token |-> <<>>]],
     [status |-> 200, json |-> TRUE, body |-> [message |-> "ok"]],
     [status |-> 200, json |-> TRUE, body |-> NonDict],
     [status |-> 0, exception |-> "ConnectionError"]}

Course1 == [id |-> 1, title |-> "Course one"]
CourseNoTitle == [id |-> 2]
\* Responses of GET /api/user/v2/courses
CourseResponses ==
    {[status |-> 401, json |-> TRUE, body |-> <<>>],
     [status |-> 200, json |-> FALSE],
     [status |-> 200, json |-> TRUE, body |-> <<>>],
     [status |-> 200, json |-> TRUE, body |-> <<Course1>>],
     [status |-> 200, json |-> TRUE, body |-> <<Course1, CourseNoTitle>>],
     [status |-> 0, exception |-> "ConnectionError"]}

Lesson(i) == [id |-> i, name |-> "Lesson"]
LessonNoId == [name |-> "Lesson"]
\* lesson lists: the batch's lessons in order, any of them without its id
LessonLists ==
    UNION {{[i \in 1..n |-> IF i \in bad THEN LessonNoId ELSE Lesson(i)] :
              bad \in SUBSET (1..n)} : n \in 0..MaxLessons}

\* Responses of GET /api/user/courses/{batch_id}/v2-lessons
LessonsResponses ==
    {[status |-> 401, json |-> TRUE, body |-> <<>>],
     [status |-> 200, json |-> FALSE],
     [status |-> 0, exception |-> "ConnectionError"]}
    \cup {[status |-> 200, json |-> TRUE, body |-> l] : l \in LessonLists}

V1 == [name |-> <<"a",":","b">>, video_url |-> <<"v","1">>]
V2 == [name |-> <<"c">>, video_url |-> <<"v","2">>]
VNoName == [video_url |-> <<"v","3">>]
VEmptyUrl == [name |-> <<"d">>, video_url |-> <<>>]
VNoUrl == [name |-> <<"e">>]

\* Responses of GET /api/lessons/{lesson_id}
LessonResponses ==
    {[status |-> 200, json |-> TRUE, body |-> [videos |-> <<V1, V2>>]],
     [status |-> 200, json |-> TRUE, body |-> [videos |-> <<VNoName, VEmptyUrl, VNoUrl>>]],
     [status |-> 200, json |-> TRUE, body |-> [videos |-> <<V1, NonDict, V2>>]],
     [status |-> 200, json |-> TRUE, body |-> [id |-> 1]],
     [status |-> 200, json |-> FALSE],
     [status |-> 404, json |-> TRUE, body |-> [videos |-> <<V2>>]],
     [status |-> 500, json |-> FALSE],
     [status |-> 0, exception |-> "ConnectionError"]}

----------------------------------------------------------------------------
(* Platform A (KGS): kgs_login_with_credentials, kgs_get_batches,          *)
(* kgs_extract_content and the two routes.                                 *)

\* kgs_login_with_credentials: the value it returns, or the fact that it
\* raises.  app.py wraps the whole body in try/except and tests the token;
\* main.py catches only the ValueError of response.json().
Login(which, r) ==
    IF "exception" \in DOMAIN r
    THEN IF which = "app" THEN [kind |-> "None"] ELSE [kind |-> "raise"]
    ELSE IF r.status # 200 THEN [kind |-> "None"]
    ELSE IF ~ r.json THEN [kind |-> "None"]
    ELSE IF ~ IsDict(r.body)
         THEN IF which = "app" THEN [kind |-> "None"] ELSE [kind |-> "raise"]
    ELSE IF "token" \notin DOMAIN r.body THEN [kind |-> "None"]
    ELSE IF which = "app" /\ r.body.token = <<>> THEN [kind |-> "None"]
    ELSE [kind |-> "token", val |-> r.body.token]

\* `if not token` of the routes
NotToken(t) == t.kind = "None" \/ (t.kind = "token" /\ t.val = <<>>)

\* kgs_get_batches
GetCourses(which, r) ==
    IF "exception" \in DOMAIN r
    THEN IF which = "app" THEN [kind |-> "None"] ELSE [kind |-> "raise"]
    ELSE IF r.status # 200 THEN [kind |-> "None"]
    ELSE IF ~ r.json
         THEN IF which = "app" THEN [kind |-> "None"] ELSE [kind |-> "raise"]
    ELSE [kind |-> "list", val |-> r.body]

\* the route /kgs/get_batches after the call of kgs_get_batches
CoursesReply(which, r) ==
    IF r.kind = "raise" THEN [status |-> 500, error |-> "Internal Server Error"]
    ELSE IF r.kind = "None" \/ r.val = <<>>
         THEN IF which = "app"
              THEN [status |-> 404, error |-> "Failed to fetch batches or no batches found"]
              ELSE [status |-> 500, error |-> "Failed to fetch batches"]
    ELSE IF \E i \in DOMAIN r.val : ~ ({"id", "title"} \subseteq DOMAIN r.val[i])
         THEN [status |-> 500, error |-> "Failed to get batches"]
    ELSE [status |-> 200,
          batches |-> [i \in DOMAIN r.val |->
                         [batch_id |-> r.val[i].id, batch_name |-> r.val[i].title]]]

RECURSIVE VideoLoop(_, _)
\* `for video in videos`: a line per video with a non-empty url; a video that
\* is not an object raises after the lines of the videos before it were added
VideoLoop(buf, videos) ==
    IF videos = <<>> THEN buf
    ELSE IF ~ IsDict(Head(videos)) THEN buf
    ELSE LET title == Replace(Get(Head(videos), "name", Untitled), <<":">>, <<" ">>)
             video_url == Get(Head(videos), "video_url", <<>>)
         IN VideoLoop(IF video_url # <<>> THEN Append(buf, Line(title, video_url))
                      ELSE buf,
                      Tail(videos))

\* the try block of one lesson after its detail request got response r; every
\* exception in it is swallowed by the except clause
LessonDetail(which, buf, r) ==
    IF "exception" \in DOMAIN r THEN buf
    ELSE IF which = "app" /\ r.status # 200 THEN buf
    ELSE IF ~ r.json THEN buf
    ELSE IF ~ IsDict(r.body) THEN buf
    ELSE VideoLoop(buf, Get(r.body, "videos", <<>>))

\* where the lesson loop goes after lesson i
AfterLesson(ls, i) == IF i + 1 > Len(ls) THEN "kgs_write" ELSE "lesson_loop"

KgsStart ==
    /\ op = "idle"
    /\ \E route \in {"kgs_get_batches", "kgs_extract"}, c \in Credentials :
         /\ op' = route
         /\ credentials' = c
         /\ IF impl = "app" /\ c = <<>>
            THEN /\ pc' = "done"
                 /\ response' = [status |-> 400, error |-> "Credentials are required"]
                 /\ UNCHANGED token
            ELSE IF HasStar(c)
            THEN /\ pc' = "login"
                 /\ UNCHANGED <<token, response>>
            ELSE IF c = <<>>
            THEN /\ pc' = "done"
                 /\ token' = c
                 /\ response' = [status |-> 401, error |-> "Login failed"]
            ELSE /\ pc' = IF route = "kgs_extract" THEN "lessons" ELSE "courses"
                 /\ token' = c
                 /\ UNCHANGED response
    /\ UNCHANGED <<prior, conc, impl, page, result, ret, content_type, subjects, si,
                   full_content, files, lessons, li, calls>>

KgsLoginRequest ==
    /\ op \in {"kgs_get_batches", "kgs_extract"} /\ pc = "login"
    /\ \E r \in LoginResponses :
         LET t == Login(impl, r) IN
         /\ calls' = Append(calls, Call("login", SplitCredentials(credentials), 0, r))
         /\ IF t.kind = "raise"
            THEN /\ pc' = "done"
                 /\ response' = [status |-> 500, error |-> "Internal Server Error"]
                 /\ UNCHANGED token
            ELSE IF NotToken(t)
            THEN /\ pc' = "done"
                 /\ response' = [status |-> 401, error |-> "Login failed"]
                 /\ UNCHANGED token
            ELSE /\ pc' = IF op = "kgs_extract" THEN "lessons" ELSE "courses"
                 /\ token' = t.val
                 /\ UNCHANGED response
    /\ UNCHANGED <<prior, conc, impl, op, page, result, ret, content_type, subjects, si,
                   full_content, files, credentials, lessons, li>>

KgsCoursesRequest ==
    /\ op = "kgs_get_batches" /\ pc = "courses"
    /\ \E r \in CourseResponses :
         /\ calls' = Append(calls, Call("courses", token, 0, r))
         /\ ret' = GetCourses(impl, r)
         /\ response' = CoursesReply(impl, GetCourses(impl, r))
    /\ pc' = "done"
    /\ UNCHANGED <<prior, conc, impl, op, page, result, content_type, subjects, si,
                   full_content, files, credentials, token, lessons, li>>

KgsLessonsRequest ==
    /\ op = "kgs_extract" /\ pc = "lessons"
    /\ \E r \in LessonsResponses :
         /\ calls' = Append(calls, Call("lessons", token, 0, r))
         /\ IF "exception" \in DOMAIN r \/ (r.status = 200 /\ ~ r.json)
            THEN /\ ret' = ExtractRaises(impl)
                 /\ pc' = "extract_done"
                 /\ UNCHANGED <<lessons, li, full_content>>
            ELSE IF r.status # 200
            THEN /\ ret' = [kind |-> "None"]
                 /\ pc' = "extract_done"
                 /\ UNCHANGED <<lessons, li, full_content>>
            ELSE /\ lessons' = r.body
                 /\ full_content' = <<>>
                 /\ li' = 1
                 /\ pc' = AfterLesson(r.body, 0)
                 /\ UNCHANGED ret
    /\ UNCHANGED <<prior, conc, impl, op, page, result, response, content_type, subjects, si,
                   files, credentials, token>>

\* a lesson with an id: one detail request and the processing of its answer
KgsLessonRequest ==
    /\ op = "kgs_extract" /\ pc = "lesson_loop"
    /\ "id" \in DOMAIN lessons[li]
    /\ \E r \in LessonResponses :
         /\ calls' = Append(calls, Call("lesson", lessons[li].id, 0, r))
         /\ full_content' = LessonDetail(impl, full_content, r)
    /\ pc' = AfterLesson(lessons, li)
    /\ li' = li + 1
    /\ UNCHANGED <<prior, conc, impl, op, page, result, ret, response, content_type, subjects,
                   si, files, credentials, token, lessons>>

\* a lesson without an id: lesson['id'] raises KeyError before any request.
\* app.py logs lesson.get('id', 'unknown') and continues; the except clause of
\* main.py evaluates lesson['id'] again, which raises out of the function.
KgsLessonNoId ==
    /\ op = "kgs_extract" /\ pc = "lesson_loop"
    /\ "id" \notin DOMAIN lessons[li]
    /\ IF impl = "app"
       THEN /\ pc' = AfterLesson(lessons, li)
            /\ li' = li + 1
            /\ UNCHANGED ret
       ELSE /\ pc' = "extract_done"
            /\ ret' = [kind |-> "raise"]
            /\ UNCHANGED li
    /\ UNCHANGED <<prior, conc, impl, op, page, result, response, content_type, subjects, si,
                   full_content, files, credentials, token, lessons, calls>>

\* `if full_content:` and the write of the output file
KgsWriteFile ==
    /\ op = "kgs_extract" /\ pc = "kgs_write"
    /\ IF full_content # <<>>
       THEN /\ files' = WriteFile(files, KgsFileName(BatchId), full_content)
            /\ ret' = [kind |-> "path", name |-> KgsFileName(BatchId)]
       ELSE /\ ret' = [kind |-> "None"]
            /\ UNCHANGED files
    /\ pc' = "extract_done"
    /\ UNCHANGED <<prior, conc, impl, op, page, result, response, content_type, subjects, si,
                   full_content, credentials, token, lessons, li, calls>>

KgsExtractReply ==
    /\ op = "kgs_extract" /\ pc = "extract_done"
    /\ response' = ExtractReply(impl, files, ret)
    /\ pc' = "done"
    /\ UNCHANGED <<prior, conc, impl, op, page, result, ret, content_type, subjects, si,
                   full_content, files, credentials, token, lessons, li, calls>>

----------------------------------------------------------------------------
(* The same extraction requested again once the first request has been     *)
(* answered.  The output directory is the only state that survives a       *)
(* request (ROOT_DIR, src/app.py:17); every other variable is local to the *)
(* handler.                                                                *)

NoPrior ==
    [run |-> 1, op |-> "idle", content_type |-> "none", credentials |-> <<>>,
     calls |-> <<>>, files |-> <<>>, response |-> NoResponse]

\* the answered extraction request becomes the earlier run; the handler's
\* locals are gone, the output directory stays
Rerun ==
    /\ op \in {"pw_extract", "kgs_extract"} /\ pc = "done"
    /\ prior.run = 1
    /\ Len(calls) <= MaxReplayCalls
    /\ prior' = [run |-> 2, op |-> op, content_type |-> content_type,
                 credentials |-> credentials, calls |-> calls, files |-> files,
                 response |-> response]
    /\ op' = "idle" /\ pc' = "idle"
    /\ page' = 0 /\ result' = <<>> /\ ret' = NoRet /\ response' = NoResponse
    /\ content_type' = "none" /\ subjects' = <<>> /\ si' = 0
    /\ full_content' = <<>>
    /\ credentials' = <<>> /\ token' = <<>> /\ lessons' = <<>> /\ li' = 0
    /\ calls' = <<>>
    /\ UNCHANGED <<impl, files, conc>>

\* the second request repeats the first (same route, content_type and
\* credentials) and the upstream data is unchanged: every call gets the
\* answer the call at the same position of the first run got
SameRequestSameUpstream ==
    prior.run = 2 =>
        /\ op' = prior.op
        /\ content_type' = prior.content_type
        /\ credentials' = prior.credentials
        /\ Len(calls') <= Len(prior.calls)
        /\ calls' # calls =>
              calls'[Len(calls')].resp = prior.calls[Len(calls')].resp

----------------------------------------------------------------------------
(* Two /pw/extract requests of the same batch served by concurrent         *)
(* workers.  A traversal reads and writes only locals of its own call, so  *)
(* it is one step here; the steps on the shared output directory are       *)
(* separate: open(path, "w") truncates the file, the buffered write        *)
(* reaches the file at offset 0 of the writer's own descriptor when the    *)
(* with-block closes it, and send_file reads the file by its name.         *)
(* Offsets are counted in lines.                                           *)

Workers == {1, 2}
Other(i) == CHOOSE j \in Workers : j # i

NoRequests ==
    [req |-> [i \in Workers |->
                [pc |-> "idle", content_type |-> "none", full_content |-> <<>>,
                 response |-> NoResponse]],
     writer |-> <<>>]

\* the buffers pw_extract_content builds for a batch of one subject whose
\* first content page is answered by any response of the upstream and whose
\* second page is empty (the upstream data may change between two requests)
TraversalBuffers(which, ct) ==
    LET start == EnterSubject(which, <<Subj(1)>>, 1, 0, <<>>)
        first(r) == ContentPageOutcome(which, ct, <<Subj(1)>>, 1, 1, start.buf, r)
    IN {first(r).buf : r \in {x \in ContentResponses(ct, 1) :
                                 first(x).pc # "extract_done"}}

\* file.write(buf) through a descriptor opened before: the buffer lands at
\* offset 0 and whatever another writer put beyond its end stays
WriteAtStart(old, buf) == buf \o SubSeq(old, Len(buf) + 1, Len(old))

ConcFile(i) == PwFileName(BatchId, conc.req[i].content_type)

handlerVars == <<impl, op, pc, page, result, ret, response, content_type, subjects,
                 si, full_content, credentials, token, lessons, li, calls, prior>>

ConcTraverse(i) ==
    /\ conc.req[i].pc = "idle"
    /\ \E ct \in ContentTypes : \E buf \in TraversalBuffers(impl, ct) :
         conc' = [conc EXCEPT !.req[i] =
                     [pc |-> "open", content_type |-> ct, full_content |-> buf,
                      response |-> NoResponse]]
    /\ UNCHANGED <<handlerVars, files>>

ConcOpen(i) ==
    /\ conc.req[i].pc = "open"
    /\ files' = WriteFile(files, ConcFile(i), <<>>)
    /\ conc' = [conc EXCEPT !.req[i].pc = "write"]
    /\ UNCHANGED handlerVars

ConcWrite(i) ==
    /\ conc.req[i].pc = "write"
    /\ files' = WriteFile(files, ConcFile(i),
                          WriteAtStart(files[ConcFile(i)], conc.req[i].full_content))
    /\ conc' = [conc EXCEPT !.req[i].pc = "send",
                            !.writer = WriteFile(conc.writer, ConcFile(i), i)]
    /\ UNCHANGED handlerVars

ConcSendFile(i) ==
    /\ conc.req[i].pc = "send"
    /\ conc' = [conc EXCEPT
                  !.req[i].pc = "done",
                  !.req[i].response =
                      ExtractReply(impl, files, [kind |-> "path", name |-> ConcFile(i)])]
    /\ UNCHANGED <<handlerVars, files>>

----------------------------------------------------------------------------
(* Properties.                                                             *)

RECURSIVE Flatten(_)
\* concatenation of a sequence of sequences
Flatten(ss) == IF ss = <<>> THEN <<>> ELSE Head(ss) \o Flatten(Tail(ss))

IsBatchCall(c) == c.api = "my-batches"
BatchCalls == SelectSeq(calls, IsBatchCall)
ContentCallsOf(i) == SelectSeq(calls, LAMBDA c : c.api = "contents" /\ c.arg = i)

\* C1: whatever the upstream answers, pw_get_batches issues at most 10 page
\* requests and the content pagination of pw_extract_content issues at most
\* 30 page requests for each subject.
C1_PageCaps ==
    /\ Len(BatchCalls) <= BatchPageCap
    /\ \A i \in 1..Len(subjects) : Len(ContentCallsOf(i)) <= ContentPageCap

\* C2: a 401 answer to any page request of the batch lister is the last
\* request of the listing, the lister returns TOKEN_ERROR and the route
\* answers 401 without any of the batches collected before.
C2_UnauthorizedAborts ==
    \A i \in DOMAIN calls :
        (IsBatchCall(calls[i]) /\ calls[i].resp.status = 401) =>
            /\ i = Len(calls)
            /\ pc \in {"list_done", "done"}
            /\ ret = [kind |-> "TOKEN_ERROR"]
            /\ pc = "done" =>
                 response = [status |-> 401, error |-> "Invalid or expired token"]

C2_Witness ==
    /\ op = "pw_get_batches" /\ pc = "done"
    /\ Len(calls) >= 3
    /\ calls[Len(calls)].resp.status = 401
    /\ Len(result) >= 2
    /\ response.status = 401

\* the batches of the successful pages before request i, as the lister
\* formats them, page by page
CollectedBefore(i) ==
    Flatten([j \in 1..(i - 1) |->
                [n \in DOMAIN calls[j].resp.body.data |->
                    BatchEntry(calls[j].resp.body.data[n])]])

\* C3: a page of the batch lister answered with a status other than 200 and
\* 401 is the last request, and the lister returns, as a list, exactly the
\* batches of the pages before it in order (not TOKEN_ERROR, not None).
C3_OtherStatusReturnsCollected ==
    \A i \in DOMAIN calls :
        (IsBatchCall(calls[i]) /\ calls[i].resp.status \notin {0, 200, 401}) =>
            /\ i = Len(calls)
            /\ pc \in {"list_done", "done"}
            /\ ret = [kind |-> "list", val |-> CollectedBefore(i)]

C3_Witness ==
    /\ op = "pw_get_batches" /\ pc = "done"
    /\ Len(calls) >= 3
    /\ calls[Len(calls)].resp.status = 500
    /\ ret.kind = "list" /\ Len(ret.val) >= 3
    /\ response.status = 200

IsPair(l) == "label" \in DOMAIN l
PairLines(buf) == SelectSeq(buf, IsPair)
PwFile == PwFileName(BatchId, content_type)
KgsFile == KgsFileName(BatchId)

\* the data list of a content response (empty unless a 200 JSON answer)
ServedPage(c) ==
    IF c.resp.status = 200 /\ c.resp.json THEN Get(c.resp.body, "data", <<>>) ELSE <<>>

\* the pairs of one served page, record by record
PagePairs(c) ==
    LET data == ServedPage(c) IN
    Flatten([n \in DOMAIN data |-> Normalize(impl, content_type, data[n]).lines])

\* the header of subject i followed by the pairs of its pages in page order
SubjectBlock(i) ==
    LET ci == ContentCallsOf(i) IN
    <<Header(subjects[i].subject)>> \o Flatten([k \in DOMAIN ci |-> PagePairs(ci[k])])

\* C4: a file written by a Platform B extraction holds, subject by subject in
\* list order, the subject's header and then the pairs of its pages 1, 2, ...
\* in page order and in-page record order; nothing is reordered or dropped as
\* a duplicate, and every pair stands under the header of its own subject.
C4_LineOrder ==
    (op = "pw_extract" /\ PwFile \in DOMAIN files) =>
        /\ files[PwFile] = Flatten([i \in DOMAIN subjects |-> SubjectBlock(i)])
        /\ \A i \in DOMAIN subjects : \A k \in DOMAIN ContentCallsOf(i) :
               ContentCallsOf(i)[k].page = k

C4_Witness ==
    /\ op = "pw_extract" /\ pc = "done" /\ response.status = 200
    /\ Len(subjects) >= 2
    /\ \A i \in DOMAIN subjects : Len(ContentCallsOf(i)) >= 3
    /\ \E a, b \in DOMAIN response.content :
          /\ a + 1 < b
          /\ IsPair(response.content[a])
          /\ response.content[a] = response.content[b]
    /\ \E a \in DOMAIN response.content :
          /\ IsPair(response.content[a])
          /\ response.content[a] # response.content[Len(response.content)]

SubjectMalformed(s) == ~ ({"_id", "subject"} \subseteq DOMAIN s)
RecordFails(item) == ~ Normalize(impl, content_type, item).ok
\* a call whose failure main.py lets escape as an exception
CallRaises(c) ==
    impl = "main" /\ ("exception" \in DOMAIN c.resp \/ (c.resp.status = 200 /\ ~ c.resp.json))
BadRecordSeen ==
    \/ \E i \in DOMAIN subjects : SubjectMalformed(subjects[i])
    \/ \E i \in DOMAIN calls :
          /\ calls[i].api = "contents"
          /\ \E n \in DOMAIN ServedPage(calls[i]) : RecordFails(ServedPage(calls[i])[n])

\* C5: a Platform B extraction that met a malformed subject entry or a record
\* whose normalisation fails (and no failing request) still ends by sending a
\* file, which holds the headers and pairs of all the other subjects and
\* records.
C5_BadRecordSkipped ==
    (/\ op = "pw_extract" /\ pc = "done"
     /\ BadRecordSeen
     /\ \A i \in DOMAIN calls : ~ CallRaises(calls[i])) =>
        /\ response.status = 200
        /\ response.content =
             Flatten([i \in DOMAIN subjects |->
                         IF SubjectMalformed(subjects[i]) THEN <<>> ELSE SubjectBlock(i)])

IsLessonCall(c) == c.api = "lesson"
LessonCalls == SelectSeq(calls, IsLessonCall)
LessonCallsOf(id) == SelectSeq(calls, LAMBDA c : c.api = "lesson" /\ c.arg = id)

\* the detail call of a lesson failed: no answer, a non-success status, or an
\* answer whose processing raises
DetailFailed(r) ==
    \/ "exception" \in DOMAIN r
    \/ r.status # 200
    \/ ~ r.json
    \/ ~ IsDict(r.body)
    \/ \E n \in DOMAIN Get(r.body, "videos", <<>>) : ~ IsDict(r.body.videos[n])

\* a line per video with a non-empty url, ':' in the name replaced by ' '
VideoLines(r) ==
    LET vs == Get(r.body, "videos", <<>>) IN
    Flatten([n \in DOMAIN vs |->
                IF Get(vs[n], "video_url", <<>>) = <<>> THEN <<>>
                ELSE <<Line(Replace(Get(vs[n], "name", Untitled), <<":">>, <<" ">>),
                            vs[n].video_url)>>])

LessonLines(l) ==
    IF "id" \notin DOMAIN l \/ LessonCallsOf(l.id) = <<>> THEN <<>>
    ELSE IF DetailFailed(LessonCallsOf(l.id)[1].resp) THEN <<>>
    ELSE VideoLines(LessonCallsOf(l.id)[1].resp)

LessonsWithId == SelectSeq(lessons, LAMBDA l : "id" \in DOMAIN l)

\* C6: once the lesson loop of a Platform A extraction has gone through the
\* list, every lesson with an id got exactly one detail call, in lesson order
\* (so the lessons after a failed one were still fetched), a lesson whose
\* detail call failed contributed no line, and the buffer holds the lines of
\* the other lessons in lesson order.
C6_FailedLessonSkipped ==
    (op = "kgs_extract" /\ lessons # <<>> /\ li > Len(lessons)) =>
        /\ [k \in DOMAIN LessonCalls |-> LessonCalls[k].arg]
             = [k \in DOMAIN LessonsWithId |-> LessonsWithId[k].id]
        /\ full_content = Flatten([i \in DOMAIN lessons |-> LessonLines(lessons[i])])

IsExtraction == op \in {"pw_extract", "kgs_extract"}

\* C7: on both platforms an output file is written only when at least one
\* `label: url` line was produced, and an extraction whose traversal ends
\* with no such line answers "no content" (404) and leaves no file.
C7_NoLinesNoFile ==
    IsExtraction =>
        /\ files # <<>> => PairLines(full_content) # <<>>
        /\ (pc = "done" /\ PairLines(full_content) = <<>>
              /\ response.status \notin {400, 401, 500}) =>
                 response.status = 404

IsPwCall(c) == c.api \in {"my-batches", "details", "contents"}

\* C8: on Platform B a 401 answer to a listing, subject-list or content-page
\* call is the last call of the request, no output file is written, and the
\* caller receives an error.
C8_UnauthorizedNoFile ==
    \A i \in DOMAIN calls :
        (IsPwCall(calls[i]) /\ calls[i].resp.status = 401) =>
            /\ i = Len(calls)
            /\ files = <<>>
            /\ pc = "done" => response.status \in {401, 404, 500}

IsKgs == op \in {"kgs_get_batches", "kgs_extract"}
IsLoginCall(c) == c.api = "login"
BearsToken(c) == c.api \in {"courses", "lessons"}

\* C9: on Platform A credentials with a '*' are split at the first '*' into
\* (user_id, password), the login call is the first call of the request and
\* the only login call; credentials without '*' are the token as they are and
\* no login call is issued.
C9_CredentialSplit ==
    IsKgs =>
        IF HasStar(credentials)
        THEN /\ \A i \in DOMAIN calls : IsLoginCall(calls[i]) <=> i = 1
             /\ pc # "login" => calls # <<>>
             /\ calls # <<>> =>
                  /\ calls[1].arg.user_id \o <<"*">> \o calls[1].arg.password = credentials
                  /\ \A j \in DOMAIN calls[1].arg.user_id : calls[1].arg.user_id[j] # "*"
             /\ \A i \in DOMAIN calls :
                  BearsToken(calls[i]) => calls[i].arg = calls[1].resp.body.token
        ELSE /\ \A i \in DOMAIN calls : ~ IsLoginCall(calls[i])
             /\ \A i \in DOMAIN calls : BearsToken(calls[i]) => calls[i].arg = credentials

C9_Witness ==
    /\ op = "kgs_extract" /\ pc = "done"
    /\ credentials = <<"*", "*">>
    /\ Len(calls) >= 3
    /\ response.status = 200

\* the login answer carries a non-empty token
LoginSucceeds(r) ==
    /\ "exception" \notin DOMAIN r
    /\ r.status = 200 /\ r.json /\ IsDict(r.body)
    /\ Get(r.body, "token", <<>>) # <<>>

\* C10: whatever the login call's outcome, a login that yields no token ends
\* the request with the login-failed error (401): no call follows it and no
\* file is written.
C10_LoginFailureIs401 ==
    \A i \in DOMAIN calls :
        (IsLoginCall(calls[i]) /\ ~ LoginSucceeds(calls[i].resp)) =>
            /\ i = Len(calls)
            /\ pc = "done"
            /\ response = [status |-> 401, error |-> "Login failed"]
            /\ files = <<>>

HasAttachments(hw) == Get(hw, "attachmentIds", <<>>) # <<>>
\* (homework.topic, attachment.baseUrl + attachment.key) of the first attachment
FirstAttachmentPair(hw) ==
    Line(Get(hw, "topic", "Untitled"),
         Get(hw.attachmentIds[1], "baseUrl", <<>>) \o Get(hw.attachmentIds[1], "key", <<>>))

\* the pairs the claim gives a record under notes and under DppNotes
ExpectedNotePairs(ct, item) ==
    LET hws == Get(item, "homeworkIds", <<>>)
        withAtt == SelectSeq(hws, HasAttachments)
    IN IF ct = "notes"
       THEN IF hws # <<>> /\ HasAttachments(hws[1]) THEN <<FirstAttachmentPair(hws[1])>>
            ELSE <<>>
       ELSE [k \in DOMAIN withAtt |-> FirstAttachmentPair(withAtt[k])]

IsContentCall(c) == c.api = "contents"
ContentCalls == SelectSeq(calls, IsContentCall)
\* every record served so far, in request order and in-page order
ServedItems == Flatten([k \in DOMAIN ContentCalls |-> ServedPage(ContentCalls[k])])

\* the traversal has not been cut short by an exception
TraversalIntact == pc \in {"content_loop", "write"} \/ ret.kind = "path"

RECURSIVE EveryOccurrence(_, _, _, _)
EveryOccurrence(s, i, old, new) ==
    IF i > Len(s) THEN <<>>
    ELSE IF i + Len(old) - 1 <= Len(s) /\ SubSeq(s, i, i + Len(old) - 1) = old
         THEN new \o EveryOccurrence(s, i + Len(old), old, new)
    ELSE <<s[i]>> \o EveryOccurrence(s, i + 1, old, new)
HostAndMpdReplaced(u) ==
    EveryOccurrence(EveryOccurrence(u, 1, OldHost, NewHost), 1, Mpd, M3u8)
UrlOf(item) == Get(item, "url", <<>>)
TopicOf(item) == Get(item, "topic", "Untitled")
AttachmentUrls ==
    {Get(a, "baseUrl", <<>>) \o Get(a, "key", <<>>) : a \in {Att1, Att2, AttNoKey}}
OneLinePerRecord(url(_)) ==
    LET items == ServedItems IN
    PairLines(full_content) = [k \in DOMAIN items |-> Line(TopicOf(items[k]), url(items[k]))]
RewrittenAndStripped(item) == Strip(HostAndMpdReplaced(UrlOf(item)))
RewrittenOnly(item) == HostAndMpdReplaced(UrlOf(item))
StrippedOnly(item) == Strip(UrlOf(item))
OtherTypesKeepUrl ==
    /\ (content_type = "exercises-notes-videos") => OneLinePerRecord(StrippedOnly)
    /\ IsNoteType(content_type) =>
          \A n \in DOMAIN full_content :
              IsPair(full_content[n]) => full_content[n].url \in AttachmentUrls

SecondRunAnswered == prior.run = 2 /\ pc = "done"

\* C13: when the same extraction has been run twice in sequence against
\* unchanged upstream data, the output directory after the second run is what
\* it was after the first run: the second run issues the same calls in the
\* same order, sends the same response, and a file it wrote holds exactly its
\* own buffer (the earlier content is overwritten, nothing is appended).
C13_RerunSameFile ==
    /\ SecondRunAnswered =>
          /\ files = prior.files
          /\ calls = prior.calls
          /\ response = prior.response
    /\ prior.run = 2 => calls = SubSeq(prior.calls, 1, Len(calls))
    /\ (prior.run = 2 /\ ret.kind = "path") => files[ret.name] = full_content

C13_Witness ==
    /\ SecondRunAnswered
    /\ op = "pw_extract" /\ response.status = 200
    /\ Len(PairLines(full_content)) >= 2
    /\ PwFile \in DOMAIN prior.files
    /\ response.content = full_content

BothAnswered == \A i \in Workers : conc.req[i].pc = "done"
\* the two requests wrote the same file: it holds the buffer of the last writer
SameFileLastWriter ==
    \A i \in Workers :
        ConcFile(i) = ConcFile(Other(i)) =>
            files[ConcFile(i)] = conc.req[conc.writer[ConcFile(i)]].full_content
\* the two requests wrote different files: each file holds its writer's buffer
DifferentFilesApart ==
    \A i \in Workers :
        ConcFile(i) # ConcFile(Other(i)) =>
            files[ConcFile(i)] = conc.req[i].full_content

\* C14: once two concurrent extraction requests have both been answered, the
\* file they share holds the buffer of whichever request wrote last, and two
\* requests with different file names have each left its own buffer in its
\* own file.
C14_LastWriterWins ==
    BothAnswered => SameFileLastWriter /\ DifferentFilesApart

\* the last upstream call was a content page that was empty or failed
LastPageEnded ==
    /\ calls # <<>>
    /\ IsContentCall(calls[Len(calls)])
    /\ ServedPage(calls[Len(calls)]) = <<>>
NextSubjectEntered(i) ==
    (i < Len(subjects) /\ ~ SubjectMalformed(subjects[i + 1])) =>
        (pc = "content_loop" /\ si = i + 1 /\ page = 1)

\* C15: the content calls of a Platform B extraction go subject by subject
\* (the first call is for subject 1, each later call is for the same subject
\* as the call before it or for the next one); the calls of one subject ask
\* for pages 1, 2, 3, ... and page k + 1 is asked for only after page k came
\* back successful and non-empty; an empty or failed page ends its subject
\* only: the traversal then stands at page 1 of the next subject.
C15_SubjectBySubject ==
    op = "pw_extract" =>
        LET cc == ContentCalls IN
        /\ cc # <<>> => cc[1].arg = 1
        /\ \A a \in DOMAIN cc :
              a > 1 => cc[a].arg \in {cc[a - 1].arg, cc[a - 1].arg + 1}
        /\ \A i \in DOMAIN subjects :
              LET ci == ContentCallsOf(i) IN
              \A k \in DOMAIN ci :
                  /\ ci[k].page = k
                  /\ k > 1 => ServedPage(ci[k - 1]) # <<>>
        /\ LastPageEnded => NextSubjectEntered(calls[Len(calls)].arg)

IsHeader(l) == "header" \in DOMAIN l
HeaderLines(buf) == SelectSeq(buf, IsHeader)
\* the subject loop ran to its end: no exception left it
TraversalCompleted ==
    /\ op = "pw_extract" /\ subjects # <<>>
    /\ si > Len(subjects)
    /\ pc \in {"write", "extract_done", "done"}

\* C16: when a Platform B extraction with a non-empty subject list has run
\* its subject loop to the end without an exception, the buffer holds exactly
\* one header per subject, in subject order, each followed by the lines of
\* that subject (none for a subject without pairs); so the buffer is not
\* empty, the file is written with it, and the route answers 200 with that
\* file, also when no record produced a pair.
C16_HeaderPerSubject ==
    TraversalCompleted =>
        /\ HeaderLines(full_content) =
               [i \in DOMAIN subjects |-> Header(subjects[i].subject)]
        /\ full_content = Flatten([i \in DOMAIN subjects |-> SubjectBlock(i)])
        /\ full_content # <<>>
        /\ pc \in {"extract_done", "done"} =>
              /\ ret = [kind |-> "path", name |-> PwFile]
              /\ PwFile \in DOMAIN files /\ files[PwFile] = full_content
        /\ pc = "done" => (response.status = 200 /\ response.content = full_content)

C16_Witness ==
    /\ TraversalCompleted /\ pc = "done"
    /\ Len(subjects) = 2
    /\ PairLines(full_content) = <<>>
    /\ response.status = 200
    /\ response.content = <<Header("Physics"), Header("Maths")>>

----------------------------------------------------------------------------
(* Initial state and next-state relation.                                  *)

Init ==
    /\ impl \in Impls
    /\ op = "idle"
    /\ pc = "idle"
    /\ page = 0
    /\ result = <<>>
    /\ ret = NoRet
    /\ response = NoResponse
    /\ content_type = "none"
    /\ subjects = <<>>
    /\ si = 0
    /\ full_content = <<>>
    /\ files = <<>>
    /\ credentials = <<>>
    /\ token = <<>>
    /\ lessons = <<>>
    /\ li = 0
    /\ calls = <<>>
    /\ prior = NoPrior
    /\ conc = NoRequests

Next ==
    \/ PwGetBatchesStart
    \/ PwBatchesRequest
    \/ PwBatchesCapReached
    \/ PwBatchesReply
    \/ PwExtractStart
    \/ PwSubjectsRequest
    \/ PwContentRequest
    \/ PwContentCapReached
    \/ PwWriteFile
    \/ PwExtractReply
    \/ KgsStart
    \/ KgsLoginRequest
    \/ KgsCoursesRequest
    \/ KgsLessonsRequest
    \/ KgsLessonRequest
    \/ KgsLessonNoId
    \/ KgsWriteFile
    \/ KgsExtractReply

Spec == Init /\ [][Next]_vars

\* one request, then the same request again against the same upstream data
NextRerun ==
    \/ Next /\ SameRequestSameUpstream
    \/ Rerun

SpecRerun == Init /\ [][NextRerun]_vars

\* two concurrent /pw/extract requests
NextConc ==
    \E i \in Workers :
        \/ ConcTraverse(i)
        \/ ConcOpen(i)
        \/ ConcWrite(i)
        \/ ConcSendFile(i)

SpecConc == Init /\ [][NextConc]_vars

====
